---- MODULE Spec2Model ----
(***************************************************************************)
(* Model of sdf_util.hpp: the signed-distance combinators, the sphere and  *)
(* plane primitives, the Mandelbulb distance estimator and the two scenes  *)
(* with their colour samplers.                                             *)
(*                                                                         *)
(* A C `float` is modelled as a binary floating-point number <<m, e>> of   *)
(* value m * 2^e, with a significand of MantBits bits, round-to-nearest-   *)
(* even after every operation, the exponent range of binary32, overflow to *)
(* +-Inf, underflow to zero, and NaN.  There is no signed zero.            *)
(***************************************************************************)
EXTENDS Integers, Sequences, FiniteSets, TLC

\* Bits of significand kept by the modelled float (binary32 keeps 24).
MantBits == 11

\* Largest and smallest binary exponent of a normal binary32 number.
EMax == 127
EMin == -126

\* Exponent field that marks NaN (m = 0) and the infinities (m = 1, -1).
ESpecial == EMax + 1

NaN == <<0, ESpecial>>
PInf == <<1, ESpecial>>
NInf == <<-1, ESpecial>>
Zero == <<0, 0>>

Abs(n) == IF n < 0 THEN -n ELSE n
Sgn(n) == IF n < 0 THEN -1 ELSE IF n > 0 THEN 1 ELSE 0
Pow2(n) == 2 ^ n

RECURSIVE BitLen(_)
BitLen(n) == IF n = 0 THEN 0 ELSE 1 + BitLen(n \div 2)

IsNaN(a) == a = NaN
IsInf(a) == a = PInf \/ a = NInf
IsNum(a) == a[2] # ESpecial

\* A normalised significand with its exponent, checked against the range.
Pack(m, e) ==
    IF e + MantBits - 1 > EMax THEN (IF m > 0 THEN PInf ELSE NInf)
    ELSE IF e + MantBits - 1 < EMin THEN Zero
    ELSE <<m, e>>

\* m * 2^e rounded to MantBits bits, ties to even.
Round(m, e) ==
    LET a == Abs(m)
        L == BitLen(a)
        sh == L - MantBits
    IN IF m = 0 THEN Zero
       ELSE IF sh <= 0 THEN Pack(m * Pow2(-sh), e + sh)
       ELSE LET q == a \div Pow2(sh)
                rem == a % Pow2(sh)
                half == Pow2(sh - 1)
                up == rem > half \/ (rem = half /\ q % 2 = 1)
                q1 == IF up THEN q + 1 ELSE q
            IN IF q1 = Pow2(MantBits)
               THEN Pack(Sgn(m) * Pow2(MantBits - 1), e + sh + 1)
               ELSE Pack(Sgn(m) * q1, e + sh)

\* An integer, a literal n/d, and n/2 as floats.
FInt(n) == Round(n, 0)
FHalf(n) == Round(n, -1)

FNeg(a) == <<-a[1], a[2]>>

\* a < b as IEEE compares: false when either is NaN.
FLt(a, b) ==
    /\ ~IsNaN(a)
    /\ ~IsNaN(b)
    /\ LET sa == Sgn(a[1])
           sb == Sgn(b[1])
       IN IF sa # sb THEN sa < sb
          ELSE IF sa = 0 THEN FALSE
          ELSE IF sa > 0 THEN a[2] < b[2] \/ (a[2] = b[2] /\ a[1] < b[1])
          ELSE b[2] < a[2] \/ (a[2] = b[2] /\ a[1] < b[1])

FGt(a, b) == FLt(b, a)
FLe(a, b) == ~IsNaN(a) /\ ~IsNaN(b) /\ ~FLt(b, a)
FGe(a, b) == FLe(b, a)

FAdd(a, b) ==
    IF IsNaN(a) \/ IsNaN(b) THEN NaN
    ELSE IF IsInf(a) THEN (IF IsInf(b) /\ a # b THEN NaN ELSE a)
    ELSE IF IsInf(b) THEN b
    ELSE IF a[1] = 0 THEN b
    ELSE IF b[1] = 0 THEN a
    ELSE LET hi == IF a[2] >= b[2] THEN a ELSE b
             lo == IF a[2] >= b[2] THEN b ELSE a
             d == hi[2] - lo[2]
         IN IF d > MantBits + 2 THEN hi
            ELSE Round(hi[1] * Pow2(d) + lo[1], lo[2])

FSub(a, b) == FAdd(a, FNeg(b))

FMul(a, b) ==
    IF IsNaN(a) \/ IsNaN(b) THEN NaN
    ELSE IF IsInf(a) \/ IsInf(b)
         THEN (IF a[1] = 0 \/ b[1] = 0 THEN NaN
               ELSE IF Sgn(a[1]) = Sgn(b[1]) THEN PInf ELSE NInf)
    ELSE IF a[1] = 0 \/ b[1] = 0 THEN Zero
    ELSE Round(a[1] * b[1], a[2] + b[2])

FDiv(a, b) ==
    IF IsNaN(a) \/ IsNaN(b) THEN NaN
    ELSE IF IsInf(a) THEN (IF IsInf(b) THEN NaN
                           ELSE IF Sgn(a[1]) * Sgn(b[1]) >= 0 THEN
                               (IF a = PInf THEN PInf ELSE NInf)
                           ELSE (IF a = PInf THEN NInf ELSE PInf))
    ELSE IF IsInf(b) THEN Zero
    ELSE IF b[1] = 0 THEN (IF a[1] = 0 THEN NaN
                           ELSE IF a[1] > 0 THEN PInf ELSE NInf)
    ELSE IF a[1] = 0 THEN Zero
    ELSE LET num == Abs(a[1]) * Pow2(MantBits + 3)
             q == num \div Abs(b[1])
             sticky == IF num % Abs(b[1]) # 0 /\ q % 2 = 0 THEN 1 ELSE 0
         IN Round(Sgn(a[1]) * Sgn(b[1]) * (q + sticky),
                  a[2] - b[2] - (MantBits + 3))

FLit(n, d) == FDiv(FInt(n), FInt(d))

RECURSIVE ISqrtFrom(_, _)
ISqrtFrom(n, x) ==
    LET y == (x + n \div x) \div 2
    IN IF y >= x THEN x ELSE ISqrtFrom(n, y)

\* The integer square root, by Newton's iteration from above.
ISqrt(n) == IF n = 0 THEN 0 ELSE ISqrtFrom(n, Pow2((BitLen(n) + 1) \div 2))

FSqrt(a) ==
    IF IsNaN(a) \/ a[1] < 0 THEN NaN
    ELSE IF a = PInf THEN PInf
    ELSE IF a[1] = 0 THEN Zero
    ELSE LET k == MantBits + 4 + ((a[2] + MantBits) % 2)
             n == a[1] * Pow2(k)
             s == ISqrt(n)
             sticky == IF s * s # n /\ s % 2 = 0 THEN 1 ELSE 0
         IN Round(s + sticky, (a[2] - k) \div 2)

(***************************************************************************)
(* The math library calls (asin, atan2, cos, sin, log, pow, fmodf).  The   *)
(* trigonometric functions and the logarithm are evaluated in fixed point  *)
(* with FixBits fractional bits and rounded back to a float.               *)
(***************************************************************************)
FixBits == 14
OneFix == Pow2(FixBits)
\* pi/2 and ln 2 in fixed point.
HalfPiFix == 25736
Ln2Fix == 11357
PiFix == 2 * HalfPiFix
TwoPiFix == 4 * HalfPiFix

MulFix(a, b) == (a * b) \div OneFix
DivFix(a, b) == (a * OneFix) \div b

\* A finite float of magnitude below 2^16 as a fixed-point integer.
ToFix(a) ==
    LET sh == a[2] + FixBits
    IN IF a[1] = 0 THEN 0
       ELSE IF sh >= 0 THEN a[1] * Pow2(sh)
       ELSE IF -sh > MantBits + 1 THEN 0
       ELSE (a[1] + Pow2(-sh - 1)) \div Pow2(-sh)

FromFix(v) == Round(v, -FixBits)

\* sin and cos of a fixed-point angle in [0, pi/2], by their Taylor series.
SinSeries(x) ==
    LET x2 == MulFix(x, x)
        t4 == OneFix - (x2 \div 72)
        t3 == OneFix - (MulFix(x2, t4) \div 42)
        t2 == OneFix - (MulFix(x2, t3) \div 20)
        t1 == OneFix - (MulFix(x2, t2) \div 6)
    IN MulFix(x, t1)

CosSeries(x) ==
    LET x2 == MulFix(x, x)
        t5 == OneFix - (x2 \div 90)
        t4 == OneFix - (MulFix(x2, t5) \div 56)
        t3 == OneFix - (MulFix(x2, t4) \div 30)
        t2 == OneFix - (MulFix(x2, t3) \div 12)
    IN OneFix - (MulFix(x2, t2) \div 2)

SinFix(x) ==
    LET y == x % TwoPiFix
        q == y \div HalfPiFix
        r == y % HalfPiFix
    IN CASE q = 0 -> SinSeries(r)
         [] q = 1 -> CosSeries(r)
         [] q = 2 -> -SinSeries(r)
         [] OTHER -> -CosSeries(r)

CosFix(x) == SinFix(x + HalfPiFix)

FSin(a) == IF IsNum(a) THEN FromFix(SinFix(ToFix(a))) ELSE NaN
FCos(a) == IF IsNum(a) THEN FromFix(CosFix(ToFix(a))) ELSE NaN

\* atan of a fixed-point u with |u| <= 1/2, by its Taylor series.
AtanSeries(u) ==
    LET u2 == MulFix(u, u)
        t4 == (OneFix \div 7) - (u2 \div 9)
        t3 == (OneFix \div 5) - MulFix(u2, t4)
        t2 == (OneFix \div 3) - MulFix(u2, t3)
        t1 == OneFix - MulFix(u2, t2)
    IN MulFix(u, t1)

\* atan of a fixed-point t in [0, 1].
AtanFix(t) ==
    IF 2 * t <= OneFix THEN AtanSeries(t)
    ELSE (HalfPiFix \div 2) + AtanSeries(DivFix(t - OneFix, t + OneFix))

FAtan2(y, x) ==
    IF IsNaN(y) \/ IsNaN(x) THEN NaN
    ELSE IF y[1] = 0 /\ x[1] = 0 THEN Zero
    ELSE LET ay == <<Abs(y[1]), y[2]>>
             ax == <<Abs(x[1]), x[2]>>
             steep == FLt(ax, ay)
             t == IF IsInf(ax) /\ IsInf(ay) THEN OneFix
                  ELSE IF steep THEN ToFix(FDiv(ax, ay))
                  ELSE ToFix(FDiv(ay, ax))
             a0 == AtanFix(t)
             a1 == IF steep THEN HalfPiFix - a0 ELSE a0
             a2 == IF x[1] < 0 THEN PiFix - a1 ELSE a1
         IN FromFix(IF y[1] < 0 THEN -a2 ELSE a2)

FAsin(v) ==
    IF IsNaN(v) \/ FLt(FInt(1), <<Abs(v[1]), v[2]>>) THEN NaN
    ELSE FAtan2(v, FSqrt(FSub(FInt(1), FMul(v, v))))

\* ln of a fixed-point f in [1/sqrt 2, sqrt 2], as 2 atanh((f-1)/(f+1)).
LnSeries(f) ==
    LET t == DivFix(f - OneFix, f + OneFix)
        t2 == MulFix(t, t)
        s3 == (OneFix \div 5) + MulFix(t2, OneFix \div 7)
        s2 == (OneFix \div 3) + MulFix(t2, s3)
        s1 == OneFix + MulFix(t2, s2)
    IN 2 * MulFix(t, s1)

FLog(a) ==
    IF IsNaN(a) \/ a[1] < 0 THEN NaN
    ELSE IF a = PInf THEN PInf
    ELSE IF a[1] = 0 THEN NInf
    ELSE LET f == a[1] * Pow2(FixBits - MantBits + 1)
             E == a[2] + MantBits - 1
         IN IF f * f > 2 * OneFix * OneFix
            THEN FromFix((E + 1) * Ln2Fix + LnSeries(f \div 2))
            ELSE FromFix(E * Ln2Fix + LnSeries(f))

\* The integer a float holds (the model passes integral exponents to pow).
ToInt(a) == IF a[2] >= 0 THEN a[1] * Pow2(a[2]) ELSE a[1] \div Pow2(-a[2])

RECURSIVE PowInt(_, _)
PowInt(a, n) == IF n = 0 THEN FInt(1) ELSE FMul(a, PowInt(a, n - 1))

\* pow(a, p) for an integral p >= 0: pow(x, 0) is 1 even for a NaN x.
FPow(a, p) == PowInt(a, ToInt(p))

RECURSIVE Pow2Mod(_, _)
Pow2Mod(d, n) == IF d = 0 THEN 1 % n ELSE (2 * Pow2Mod(d - 1, n)) % n

\* fmodf(a, b): a - trunc(a/b)*b, exact, with the sign of a.
fmodf(a, b) ==
    IF IsNaN(a) \/ IsNaN(b) \/ IsInf(a) \/ b[1] = 0 THEN NaN
    ELSE IF IsInf(b) \/ a[1] = 0 THEN a
    ELSE LET ma == Abs(a[1])
             mb == Abs(b[1])
             d == a[2] - b[2]
         IN IF d >= 0
            THEN Round(Sgn(a[1]) * (((ma % mb) * Pow2Mod(d, mb)) % mb), b[2])
            ELSE IF -d > MantBits THEN a
            ELSE Round(Sgn(a[1]) * (ma % (mb * Pow2(-d))), a[2])

(***************************************************************************)
(* float3 and the vector helpers of cutil_math.h that the source uses.     *)
(***************************************************************************)
make_float3(x, y, z) == <<x, y, z>>
Splat(s) == <<s, s, s>>
VAdd(a, b) == <<FAdd(a[1], b[1]), FAdd(a[2], b[2]), FAdd(a[3], b[3])>>
VSub(a, b) == <<FSub(a[1], b[1]), FSub(a[2], b[2]), FSub(a[3], b[3])>>
VScale(s, v) == <<FMul(s, v[1]), FMul(s, v[2]), FMul(s, v[3])>>
\* float3 / float multiplies by the reciprocal.
VDiv(v, s) == VScale(FDiv(FInt(1), s), v)
dot(a, b) == FAdd(FAdd(FMul(a[1], b[1]), FMul(a[2], b[2])), FMul(a[3], b[3]))
length(v) == FSqrt(dot(v, v))

\* min and max of two floats (fminf, fmaxf): a NaN operand is ignored.  The
\* scenes can pass a NaN only as the first operand, where the host fallback
\* of cutil_math.h (a < b ? a : b) returns the second operand as well.
min(a, b) == IF IsNaN(a) THEN b ELSE IF IsNaN(b) THEN a
             ELSE IF FLt(b, a) THEN b ELSE a
max(a, b) == IF IsNaN(a) THEN b ELSE IF IsNaN(b) THEN a
             ELSE IF FLt(a, b) THEN b ELSE a

(***************************************************************************)
(* Distance combinators and primitives.                                    *)
(***************************************************************************)
sdfUnion(a, b) == min(a, b)

sdfDifferenceSwapped(a, b) == max(a, FNeg(b))
sdfDifference(a, b) == max(FNeg(a), b)

sdfIntersection(a, b) == max(a, b)

sdfSphereAdd(pos, radius) == FAdd(length(pos), radius)
sdfSphere(pos, radius) == FSub(length(pos), radius)

sdfPlane(pos, n) == dot(pos, n)

(***************************************************************************)
(* mandelbulb: the statements of the loop body, one operator each.         *)
(***************************************************************************)
\* r > bail
Escaped(r, bail) == FGt(r, bail)

\* theta = asin(z.z / r);  phi = atan2(z.y, z.x)
Theta(z, r) == FAsin(FDiv(z[3], r))
Phi(z) == FAtan2(z[2], z[1])

DrUpdateNoOne(r, power, dr) ==
    FMul(FMul(FPow(r, FSub(power, FInt(1))), power), dr)

\* dr = pow(r, power - 1.0f) * power * dr + 1.0f
DrUpdate(r, power, dr) ==
    FAdd(FMul(FMul(FPow(r, FSub(power, FInt(1))), power), dr), FInt(1))

\* zr = pow(r, power); theta *= power; phi *= power;
\* z = zr * (cos(theta)cos(phi), sin(phi)cos(theta), sin(theta)); z += pos
ZUpdate(r, theta, phi, power, pos) ==
    LET zr == FPow(r, power)
        th == FMul(theta, power)
        ph == FMul(phi, power)
    IN VAdd(VScale(zr, make_float3(FMul(FCos(th), FCos(ph)),
                                   FMul(FSin(ph), FCos(th)),
                                   FSin(th))),
            pos)

\* 0.5f*log(r)*r / dr
Estimate(r, dr) == FDiv(FMul(FMul(FHalf(1), FLog(r)), r), dr)

\* The locals of one call at entry: z = pos, dr = 1.0, r = 0.0, i = 0.
Frame(pos, iterations, bail, power) ==
    [pos |-> pos, iterations |-> iterations, bail |-> bail, power |-> power,
     z |-> pos, dr |-> FInt(1), r |-> Zero, i |-> 0,
     theta |-> Zero, phi |-> Zero]

\* for (i = 0; i < iterations; i++) { ... }, run to its end.
RECURSIVE MbLoop(_)
MbLoop(f) ==
    IF f.i >= f.iterations THEN f
    ELSE LET r == length(f.z)
         IN IF Escaped(r, f.bail) THEN [f EXCEPT !.r = r]
            ELSE LET theta == Theta(f.z, r)
                     phi == Phi(f.z)
                 IN MbLoop([f EXCEPT
                        !.r = r,
                        !.theta = theta,
                        !.phi = phi,
                        !.dr = DrUpdate(r, f.power, f.dr),
                        !.z = ZUpdate(r, theta, phi, f.power, f.pos),
                        !.i = f.i + 1])

mandelbulb(pos, iterations, bail, power) ==
    LET f == MbLoop(Frame(pos, iterations, bail, power))
    IN Estimate(f.r, f.dr)

(***************************************************************************)
(* The two scenes and their colour samplers.                               *)
(***************************************************************************)
\* The arguments both Mandelbulb functions pass: pos / 2.3f, 8, 4, 8.0f.
SceneScale == FLit(23, 10)
SceneIterations == 8
SceneBail == 4
ScenePower == 8
SceneFrame(pos) ==
    Frame(VDiv(pos, SceneScale), SceneIterations, FInt(SceneBail),
          FInt(ScenePower))

\* sdfPlane(pos - make_float3(0, -2.0f, 0), make_float3(0, 1, 0))
GroundPlane(pos) ==
    sdfPlane(VSub(pos, make_float3(Zero, FInt(-2), Zero)),
             make_float3(Zero, FInt(1), Zero))

Gray == Splat(FLit(85, 100))
YellowGreen == make_float3(FLit(85, 100), FInt(1), Zero)
OrangeRed == make_float3(FInt(1), FLit(3, 10), FLit(1, 10))

\* mandelbulbScene and mandelbulbColor, given what mandelbulb returned.
MandelbulbSceneUnscaled(ret, pos) == sdfUnion(ret, GroundPlane(pos))
MandelbulbSceneOf(ret, pos) ==
    LET mb == FMul(ret, SceneScale)
        plane == GroundPlane(pos)
    IN sdfUnion(mb, plane)

MandelbulbColorOf(ret, pos) ==
    LET mb == FMul(ret, SceneScale)
        plane == GroundPlane(pos)
    IN IF FLt(plane, mb) THEN Gray ELSE YellowGreen

SceneMandelbulb(pos) ==
    LET f == SceneFrame(pos)
    IN mandelbulb(f.pos, f.iterations, f.bail, f.power)

mandelbulbScene(pos) == MandelbulbSceneOf(SceneMandelbulb(pos), pos)
mandelbulbColor(pos) == MandelbulbColorOf(SceneMandelbulb(pos), pos)

\* The four sign variants of the period-2 lattice, and their union.
Mod1(pos) == make_float3(FSub(fmodf(pos[1], FInt(2)), FInt(1)),
                         FAdd(pos[2], FHalf(3)),
                         FSub(fmodf(pos[3], FInt(2)), FInt(1)))
Mod2Unflipped(pos) == Mod1(pos)
Mod2(pos) == make_float3(FSub(FNeg(fmodf(pos[1], FInt(2))), FInt(1)),
                         FAdd(pos[2], FHalf(3)),
                         FSub(fmodf(pos[3], FInt(2)), FInt(1)))
Mod3(pos) == make_float3(FSub(fmodf(pos[1], FInt(2)), FInt(1)),
                         FAdd(pos[2], FHalf(3)),
                         FSub(FNeg(fmodf(pos[3], FInt(2))), FInt(1)))
Mod4(pos) == make_float3(FSub(FNeg(fmodf(pos[1], FInt(2))), FInt(1)),
                         FAdd(pos[2], FHalf(3)),
                         FSub(FNeg(fmodf(pos[3], FInt(2))), FInt(1)))

Spheres(pos) ==
    LET spheres1 == sdfSphere(Mod1(pos), FHalf(1))
        spheres2 == sdfSphere(Mod2(pos), FHalf(1))
        spheres3 == sdfSphere(Mod3(pos), FHalf(1))
        spheres4 == sdfSphere(Mod4(pos), FHalf(1))
    IN sdfUnion(sdfUnion(sdfUnion(spheres1, spheres2), spheres3), spheres4)

sphereScene(pos) == sdfUnion(Spheres(pos), GroundPlane(pos))

sphereColorTie(pos) ==
    IF FLe(GroundPlane(pos), Spheres(pos)) THEN OrangeRed ELSE Gray

sphereColor(pos) ==
    IF FLt(GroundPlane(pos), Spheres(pos)) THEN OrangeRed ELSE Gray

(***************************************************************************)
(* Calls.  Each thread makes one call of one function of the header; the   *)
(* caller (out of this file) chooses the function and its arguments.       *)
(***************************************************************************)
\* Threads that may call concurrently.
NThreads == 2
\* Coordinates of the sample grid, in halves: -MaxCoord/2 .. MaxCoord/2.
MaxCoord == 4

Threads == 1..NThreads
Coords == -MaxCoord..MaxCoord

Vec(p) == <<FHalf(p[1]), FHalf(p[2]), FHalf(p[3])>>

\* Sample points near the scene (in halves), and points whose scaled
\* magnitude is beyond the bailout radius, in pairs p, 2p along rays.
GridPoints == {<<x, y, z>> : x \in Coords, y \in Coords, z \in {-3, 0, 2}}
FarRays == {<<20, 0, 0>>, <<-20, 0, 0>>, <<0, 20, 0>>, <<0, -20, 0>>,
            <<0, 0, 20>>, <<12, 16, 0>>, <<12, -16, 3>>, <<20, -4, 0>>,
            <<0, 19, 2>>}
FarPoints == FarRays \cup {<<2 * p[1], 2 * p[2], 2 * p[3]>> : p \in FarRays}
            \cup {<<40, -4, 0>>}
DirectPoints == {<<x, y, z>> : x \in Coords, y \in {0, 1}, z \in {0, 1}}
Scalars == {FHalf(n) : n \in (-2 * MaxCoord)..(2 * MaxCoord)}

Combinators == {"sdfUnion", "sdfDifference", "sdfIntersection"}
SceneFns == {"mandelbulbScene", "mandelbulbColor", "sphereScene", "sphereColor"}
MbFns == {"mandelbulb", "mandelbulbScene", "mandelbulbColor"}

Call(fn, a, b, pos, iterations, bail, power) ==
    [fn |-> fn, a |-> a, b |-> b, pos |-> pos, iterations |-> iterations,
     bail |-> bail, power |-> power]

NoCall == Call("none", Zero, Zero, Splat(Zero), 0, Zero, Zero)

CombinatorCalls ==
    {Call(fn, a, b, Splat(Zero), 0, Zero, Zero) :
        fn \in Combinators, a \in Scalars, b \in Scalars}
SceneCalls ==
    {Call(fn, Zero, Zero, Vec(p), 0, Zero, Zero) :
        fn \in SceneFns, p \in GridPoints \cup FarPoints}
MandelbulbCalls ==
    {Call("mandelbulb", Zero, Zero, Vec(p), n, FInt(bail), FInt(power)) :
        p \in DirectPoints, n \in {0, 2, 8}, bail \in {2, 4},
        power \in {1, 2, 8}}
AllCalls == CombinatorCalls \cup SceneCalls \cup MandelbulbCalls

\* The calls the concurrent specification interleaves.
ConcPoints == {<<-2, 0, 0>>, <<1, 1, 1>>}
ConcCalls ==
    {Call("mandelbulb", Zero, Zero, Vec(p), 2, FInt(4), FInt(8)) :
        p \in ConcPoints}
    \cup {Call(fn, Zero, Zero, Vec(<<20, 0, 0>>), 0, Zero, Zero) :
            fn \in {"mandelbulbScene", "mandelbulbColor"}}
    \cup {Call(fn, Zero, Zero, Vec(<<2, -3, 2>>), 0, Zero, Zero) :
            fn \in {"sphereScene", "sphereColor"}}
    \cup {Call(fn, FInt(1), FInt(2), Splat(Zero), 0, Zero, Zero) :
            fn \in Combinators}

VARIABLES
    pc,      \* thread -> where its call stands
    args,    \* thread -> the call it makes
    mb,      \* slot -> the parameters and locals of mandelbulb
    ret,     \* thread -> what its mandelbulb call returned
    result   \* thread -> what its call returned

vars == <<pc, args, mb, ret, result>>

\* Where a thread's mandelbulb frame lives: its own stack.
SharedSlot(t) == 1
Slot(t) == t

IdleFrame == Frame(Splat(Zero), 0, Zero, Zero)

\* One caller; the other threads make no call.
Init ==
    /\ pc = [t \in Threads |-> IF t = 1 THEN "idle" ELSE "off"]
    /\ args = [t \in Threads |-> NoCall]
    /\ mb = [s \in Threads |-> IdleFrame]
    /\ ret = [t \in Threads |-> Zero]
    /\ result = [t \in Threads |-> Zero]

\* NThreads callers at once.
InitConc ==
    /\ pc = [t \in Threads |-> "idle"]
    /\ args = [t \in Threads |-> NoCall]
    /\ mb = [s \in Threads |-> IdleFrame]
    /\ ret = [t \in Threads |-> Zero]
    /\ result = [t \in Threads |-> Zero]

\* The caller picks a function of the header and its arguments.
InvokeFrom(t, calls) ==
    /\ pc[t] = "idle"
    /\ \E c \in calls : args' = [args EXCEPT ![t] = c]
    /\ pc' = [pc EXCEPT ![t] = "start"]
    /\ UNCHANGED <<mb, ret, result>>

Invoke(t) == InvokeFrom(t, AllCalls)
InvokeConc(t) == InvokeFrom(t, ConcCalls)

Finish(t, v) ==
    /\ result' = [result EXCEPT ![t] = v]
    /\ pc' = [pc EXCEPT ![t] = "done"]
    /\ UNCHANGED <<args, mb, ret>>

SdfUnion(t) ==
    /\ pc[t] = "start" /\ args[t].fn = "sdfUnion"
    /\ Finish(t, sdfUnion(args[t].a, args[t].b))

SdfDifference(t) ==
    /\ pc[t] = "start" /\ args[t].fn = "sdfDifference"
    /\ Finish(t, sdfDifference(args[t].a, args[t].b))

SdfIntersection(t) ==
    /\ pc[t] = "start" /\ args[t].fn = "sdfIntersection"
    /\ Finish(t, sdfIntersection(args[t].a, args[t].b))

SphereScene(t) ==
    /\ pc[t] = "start" /\ args[t].fn = "sphereScene"
    /\ Finish(t, sphereScene(args[t].pos))

SphereColor(t) ==
    /\ pc[t] = "start" /\ args[t].fn = "sphereColor"
    /\ Finish(t, sphereColor(args[t].pos))

Goto(t, l) == pc' = [pc EXCEPT ![t] = l]

\* Entry to mandelbulb: float3 z = pos; float dr = 1.0; float r = 0.0; i = 0
Enter(t) ==
    /\ pc[t] = "start" /\ args[t].fn \in MbFns
    /\ mb' = [mb EXCEPT ![Slot(t)] =
                IF args[t].fn = "mandelbulb"
                THEN Frame(args[t].pos, args[t].iterations, args[t].bail,
                           args[t].power)
                ELSE SceneFrame(args[t].pos)]
    /\ Goto(t, "for")
    /\ UNCHANGED <<args, ret, result>>

\* i < iterations
LoopTest(t) ==
    /\ pc[t] = "for"
    /\ Goto(t, IF mb[Slot(t)].i < mb[Slot(t)].iterations THEN "len" ELSE "ret")
    /\ UNCHANGED <<args, mb, ret, result>>

\* r = length(z)
MeasureStale(t) ==
    /\ pc[t] = "len"
    /\ mb' = [mb EXCEPT ![Slot(t)].r =
                IF mb[Slot(t)].i = 0 THEN length(mb[Slot(t)].z) ELSE @]
    /\ Goto(t, "bail")
    /\ UNCHANGED <<args, ret, result>>

Measure(t) ==
    /\ pc[t] = "len"
    /\ mb' = [mb EXCEPT ![Slot(t)].r = length(mb[Slot(t)].z)]
    /\ Goto(t, "bail")
    /\ UNCHANGED <<args, ret, result>>

\* if (r > bail) break
BailContinue(t) ==
    /\ pc[t] = "bail"
    /\ IF Escaped(mb[Slot(t)].r, mb[Slot(t)].bail)
       THEN /\ mb' = [mb EXCEPT ![Slot(t)].i = @ + 1]
            /\ Goto(t, "for")
       ELSE /\ UNCHANGED mb
            /\ Goto(t, "polar")
    /\ UNCHANGED <<args, ret, result>>

Bail(t) ==
    /\ pc[t] = "bail"
    /\ Goto(t, IF Escaped(mb[Slot(t)].r, mb[Slot(t)].bail) THEN "ret" ELSE "polar")
    /\ UNCHANGED <<args, mb, ret, result>>

\* theta = asin(z.z / r); phi = atan2(z.y, z.x); dr = ...
Polar(t) ==
    /\ pc[t] = "polar"
    /\ LET f == mb[Slot(t)]
       IN mb' = [mb EXCEPT ![Slot(t)] =
                    [f EXCEPT !.theta = Theta(f.z, f.r),
                              !.phi = Phi(f.z),
                              !.dr = DrUpdate(f.r, f.power, f.dr)]]
    /\ Goto(t, "rotate")
    /\ UNCHANGED <<args, ret, result>>

\* zr = pow(r, power); ...; z = zr * (...); z += pos; then i++
Rotate(t) ==
    /\ pc[t] = "rotate"
    /\ LET f == mb[Slot(t)]
       IN mb' = [mb EXCEPT ![Slot(t)] =
                    [f EXCEPT !.z = ZUpdate(f.r, f.theta, f.phi, f.power, f.pos),
                              !.i = f.i + 1]]
    /\ Goto(t, "for")
    /\ UNCHANGED <<args, ret, result>>

\* return 0.5f*log(r)*r / dr
Return(t) ==
    /\ pc[t] = "ret"
    /\ LET v == Estimate(mb[Slot(t)].r, mb[Slot(t)].dr)
       IN IF args[t].fn = "mandelbulb"
          THEN Finish(t, v)
          ELSE /\ ret' = [ret EXCEPT ![t] = v]
               /\ Goto(t, "compose")
               /\ UNCHANGED <<args, mb, result>>

\* The rest of mandelbulbScene / mandelbulbColor once mandelbulb returned.
Compose(t) ==
    /\ pc[t] = "compose"
    /\ Finish(t, IF args[t].fn = "mandelbulbScene"
                 THEN MandelbulbSceneOf(ret[t], args[t].pos)
                 ELSE MandelbulbColorOf(ret[t], args[t].pos))

Step(t) ==
    \/ SdfUnion(t)
    \/ SdfDifference(t)
    \/ SdfIntersection(t)
    \/ SphereScene(t)
    \/ SphereColor(t)
    \/ Enter(t)
    \/ LoopTest(t)
    \/ Measure(t)
    \/ Bail(t)
    \/ Polar(t)
    \/ Rotate(t)
    \/ Return(t)
    \/ Compose(t)

Next == \E t \in Threads : Invoke(t) \/ Step(t)
NextConc == \E t \in Threads : InvokeConc(t) \/ Step(t)

Spec == Init /\ [][Next]_vars
SpecConc == InitConc /\ [][NextConc]_vars

(***************************************************************************)
(* Properties.                                                             *)
(***************************************************************************)
Done(t) == pc[t] = "done"
IntMin(n, k) == IF n < k THEN n ELSE k
IntMax(n, k) == IF n < k THEN k ELSE n
\* The scalar n/2 a float of Scalars stands for.
HalvesOf(v) == CHOOSE n \in (-2 * MaxCoord)..(2 * MaxCoord) : FHalf(n) = v

\* C1: for all finite a and b, sdfUnion(a,b) is min(a,b), sdfIntersection(a,b)
\* is max(a,b) and sdfDifference(a,b) is max(-a,b): the first argument is the
\* one negated.  The expected value is computed on the integers n, k with
\* a = n/2 and b = k/2.
C1_Combinators ==
    \A t \in Threads :
        Done(t) /\ args[t].fn \in Combinators =>
            LET n == HalvesOf(args[t].a)
                k == HalvesOf(args[t].b)
            IN CASE args[t].fn = "sdfUnion" ->
                        result[t] = FHalf(IntMin(n, k))
                 [] args[t].fn = "sdfIntersection" ->
                        result[t] = FHalf(IntMax(n, k))
                 [] OTHER ->
                        result[t] = FHalf(IntMax(-n, k))

\* sdfDifference returned the negation of its first argument, which differs
\* from what negating the second would have given.
C1_Witness ==
    \E t \in Threads :
        /\ Done(t) /\ args[t].fn = "sdfDifference"
        /\ args[t].a = FInt(1) /\ args[t].b = FInt(-3)
        /\ result[t] = FInt(-1)

\* C2 as stated: sdfDifference(1, 2) gives -1 and sdfDifference(2, 1) gives 1.
C2_AsStated ==
    \A t \in Threads :
        Done(t) /\ args[t].fn = "sdfDifference" =>
            /\ (args[t].a = FInt(1) /\ args[t].b = FInt(2) => result[t] = FInt(-1))
            /\ (args[t].a = FInt(2) /\ args[t].b = FInt(1) => result[t] = FInt(1))

\* C2 amended: sdfDifference is not commutative: sdfDifference(1, 2) gives 2
\* (max(-1, 2)) and sdfDifference(2, 1) gives 1 (max(-2, 1)).
C2_NotCommutative ==
    \A t \in Threads :
        Done(t) /\ args[t].fn = "sdfDifference" =>
            /\ (args[t].a = FInt(1) /\ args[t].b = FInt(2) =>
                    /\ result[t] = FInt(2)
                    /\ result[t] # sdfDifference(args[t].b, args[t].a))
            /\ (args[t].a = FInt(2) /\ args[t].b = FInt(1) => result[t] = FInt(1))

C2_Witness ==
    \E t \in Threads :
        /\ Done(t) /\ args[t].fn = "sdfDifference"
        /\ args[t].a = FInt(1) /\ args[t].b = FInt(2)

\* C7: sphereScene at the lattice sphere centre (1, -1.5, 1) returns -0.5, and
\* at the point 0.5 above it, (1, -1, 1), returns 0.
C7_LatticeCentre ==
    \A t \in Threads :
        Done(t) /\ args[t].fn = "sphereScene" =>
            /\ (args[t].pos = Vec(<<2, -3, 2>>) => result[t] = FHalf(-1))
            /\ (args[t].pos = Vec(<<2, -2, 2>>) => result[t] = Zero)

C7_Witness ==
    \E t \in Threads :
        /\ Done(t) /\ args[t].fn = "sphereScene"
        /\ args[t].pos = Vec(<<2, -3, 2>>)
        /\ FLt(result[t], Zero)

MirrorX(p) == <<FNeg(p[1]), p[2], p[3]>>
MirrorZ(p) == <<p[1], p[2], FNeg(p[3])>>

\* C10: sphereScene is mirror-symmetric in x and in z at every point, negative
\* coordinates (negative fmodf remainders) included:
\* sphereScene((x,y,z)) = sphereScene((-x,y,z)) = sphereScene((x,y,-z)).
C10_MirrorSymmetric ==
    \A t \in Threads :
        Done(t) /\ args[t].fn = "sphereScene" =>
            /\ result[t] = sphereScene(MirrorX(args[t].pos))
            /\ result[t] = sphereScene(MirrorZ(args[t].pos))

\* A point with negative x and z whose remainders are negative and not zero,
\* where a sphere (not the plane) is the nearest surface.
C10_Witness ==
    \E t \in Threads :
        /\ Done(t) /\ args[t].fn = "sphereScene"
        /\ args[t].pos = Vec(<<-3, -3, -3>>)
        /\ fmodf(args[t].pos[1], FInt(2)) = FHalf(-3)
        /\ result[t] = Spheres(args[t].pos)
        /\ result[t] # GroundPlane(args[t].pos)

\* The two sub-distances of the Mandelbulb scene at p.
FractalAt(p) == FMul(SceneMandelbulb(p), SceneScale)

\* What C3 says of a finished colour call at p with sub-distances plane and
\* other, where composer is what the paired scene function returns at p.
Agree(color, planeMaterial, otherMaterial, plane, other, composer) ==
    /\ (FLt(plane, other) => color = planeMaterial)
    /\ (~FLt(plane, other) => color = otherMaterial)
    /\ composer = (IF color = planeMaterial THEN plane ELSE other)

C3_Gray == <<FLit(85, 100), FLit(85, 100), FLit(85, 100)>>
C3_OrangeRed == <<FInt(1), FLit(3, 10), FLit(1, 10)>>
C3_YellowGreen == <<FLit(85, 100), FInt(1), Zero>>

\* C3 as stated: at every point the sampler returns the plane material exactly
\* when the plane sub-distance is strictly less than the other one, the other
\* material otherwise, and the composer's distance is the sub-distance of the
\* surface whose material the sampler returned.
C3_AsStated ==
    \A t \in Threads :
        Done(t) =>
            /\ args[t].fn = "mandelbulbColor" =>
                  Agree(result[t], C3_Gray, C3_YellowGreen,
                        GroundPlane(args[t].pos), FractalAt(args[t].pos),
                        mandelbulbScene(args[t].pos))
            /\ args[t].fn = "sphereColor" =>
                  Agree(result[t], C3_OrangeRed, C3_Gray,
                        GroundPlane(args[t].pos), Spheres(args[t].pos),
                        sphereScene(args[t].pos))

\* C3 amended: the same, at every point where the fractal sub-distance is a
\* number.  Where it is NaN (the origin) the sampler returns the fractal
\* material and the composer returns the plane distance.
C3_SamplerAgrees ==
    \A t \in Threads :
        Done(t) =>
            /\ args[t].fn = "mandelbulbColor" =>
                  IF IsNaN(FractalAt(args[t].pos))
                  THEN /\ result[t] = C3_YellowGreen
                       /\ mandelbulbScene(args[t].pos) = GroundPlane(args[t].pos)
                  ELSE Agree(result[t], C3_Gray, C3_YellowGreen,
                             GroundPlane(args[t].pos), FractalAt(args[t].pos),
                             mandelbulbScene(args[t].pos))
            /\ args[t].fn = "sphereColor" =>
                  Agree(result[t], C3_OrangeRed, C3_Gray,
                        GroundPlane(args[t].pos), Spheres(args[t].pos),
                        sphereScene(args[t].pos))

\* A tie: where a sphere touches the plane both sub-distances are equal and
\* the sampler returns the sphere material.
C3_Witness ==
    \E t \in Threads :
        /\ Done(t) /\ args[t].fn = "sphereColor"
        /\ GroundPlane(args[t].pos) = Spheres(args[t].pos)
        /\ result[t] = C3_Gray

\* What a call returns when nothing else runs.
Eval(c) ==
    CASE c.fn = "sdfUnion" -> sdfUnion(c.a, c.b)
      [] c.fn = "sdfDifference" -> sdfDifference(c.a, c.b)
      [] c.fn = "sdfIntersection" -> sdfIntersection(c.a, c.b)
      [] c.fn = "sphereScene" -> sphereScene(c.pos)
      [] c.fn = "sphereColor" -> sphereColor(c.pos)
      [] c.fn = "mandelbulbScene" -> mandelbulbScene(c.pos)
      [] c.fn = "mandelbulbColor" -> mandelbulbColor(c.pos)
      [] OTHER -> mandelbulb(c.pos, c.iterations, c.bail, c.power)

\* C4: under any interleaving of the steps of concurrent calls (several
\* mandelbulb loops included) each call returns exactly what it returns when
\* run alone, and two calls with the same arguments return the same value.
C4_CallsIndependent ==
    /\ \A t \in Threads : Done(t) => result[t] = Eval(args[t])
    /\ \A t, u \in Threads :
          Done(t) /\ Done(u) /\ args[t] = args[u] => result[t] = result[u]

\* One mandelbulb call has returned while another, on a different point, is
\* in the middle of its loop.
C4_Witness ==
    \E t, u \in Threads :
        /\ Done(t) /\ args[t].fn = "mandelbulb"
        /\ args[u].fn = "mandelbulb" /\ args[u].pos # args[t].pos
        /\ pc[u] = "rotate" /\ mb[Slot(u)].i = 1

InBody(t) == pc[t] \in {"len", "bail", "polar", "rotate"}
Left(t) == pc[t] \in {"ret", "compose", "done"}

\* The iterations a call may run: its argument, or the scenes' constant.
CallIterations(t) ==
    IF args[t].fn = "mandelbulb" THEN args[t].iterations
    ELSE IF args[t].fn \in MbFns THEN SceneIterations ELSE 0

\* A bound on the steps a call has yet to take: five per pass of the loop
\* still allowed, then the loop test, the return and the composition.
StepsLeft(t) ==
    LET left == mb[Slot(t)].iterations - mb[Slot(t)].i
    IN CASE pc[t] = "start" -> 5 * CallIterations(t) + 4
         [] pc[t] = "for" -> 5 * left + 3
         [] pc[t] = "len" -> 5 * left + 2
         [] pc[t] = "bail" -> 5 * left + 1
         [] pc[t] = "polar" -> 5 * left
         [] pc[t] = "rotate" -> 5 * left - 1
         [] pc[t] = "ret" -> 2
         [] pc[t] = "compose" -> 1
         [] OTHER -> 0

\* C5: every call of mandelbulb terminates: each step of a call strictly
\* decreases StepsLeft, which is never negative, so a call returns within
\* 5 * iterations + 4 steps.  The loop body is entered only with
\* i < iterations and i grows by one per pass, so it is entered at most
\* `iterations` times; an iteration that measures r > bail leaves the loop at
\* once, and no iteration is entered after the loop was left.
C5_Terminates ==
    /\ [](\A t \in Threads :
            /\ StepsLeft(t) >= 0
            /\ InBody(t) => mb[Slot(t)].i < mb[Slot(t)].iterations)
    /\ [][\A t \in Threads :
            /\ pc[t] \notin {"idle", "off"}
            /\ pc'[t] # pc[t] \/ mb'[Slot(t)] # mb[Slot(t)]
            => StepsLeft(t)' < StepsLeft(t)]_vars
    /\ [][\A t \in Threads :
            pc[t] = "bail" /\ Escaped(mb[Slot(t)].r, mb[Slot(t)].bail)
                /\ pc'[t] # pc[t] => pc'[t] = "ret"]_vars
    /\ [][\A t \in Threads : Left(t) => Left(t)']_vars
    /\ [][\A t \in Threads :
            pc[t] \notin {"idle", "start", "off"} =>
                \/ mb'[Slot(t)].i = mb[Slot(t)].i
                \/ /\ pc[t] = "rotate" /\ pc'[t] = "for"
                   /\ mb'[Slot(t)].i = mb[Slot(t)].i + 1]_vars

\* A scene call (8 iterations, bail 4) left its loop by escape after some
\* iterations but before the eighth.
C5_Witness ==
    \E t \in Threads :
        /\ pc[t] = "ret" /\ args[t].fn = "mandelbulbScene"
        /\ Escaped(mb[Slot(t)].r, mb[Slot(t)].bail)
        /\ mb[Slot(t)].i > 0 /\ mb[Slot(t)].i < SceneIterations

\* Whether the scaled point is beyond the bailout radius, as the first
\* iteration measures it, and the fractal term of the scene there.
ScaledLength(p) == length(SceneFrame(p).pos)
Outside(p) == Escaped(ScaledLength(p), FInt(SceneBail))
FarTerm(p) == FMul(Estimate(ScaledLength(p), FInt(1)), SceneScale)
NormSq(p) == p[1] * p[1] + p[2] * p[2] + p[3] * p[3]

\* C6 as stated: at a point beyond the bailout radius after scaling,
\* mandelbulbScene returns a positive distance that increases with |pos|.
C6_AsStated ==
    \A t \in Threads :
        Done(t) /\ args[t].fn = "mandelbulbScene" /\ Outside(args[t].pos) =>
            /\ FGt(result[t], Zero)
            /\ \A p, q \in FarPoints :
                  args[t].pos = Vec(p) /\ Outside(Vec(q)) /\ NormSq(p) < NormSq(q)
                      => FLt(result[t], mandelbulbScene(Vec(q)))

\* C6 amended: at such a point the loop escapes on its first iteration with
\* dr = 1; the fractal term 0.5*ln(r)*r*2.3, r = |pos / 2.3|, is positive and
\* does not decrease as r grows; and mandelbulbScene returns the smaller of
\* that term and the plane distance pos.y + 2.
C6_FarField ==
    \A t \in Threads :
        Done(t) /\ args[t].fn = "mandelbulbScene" /\ Outside(args[t].pos) =>
            LET frac == FarTerm(args[t].pos)
                plane == FAdd(args[t].pos[2], FInt(2))
            IN /\ mb[Slot(t)].i = 0 /\ mb[Slot(t)].dr = FInt(1)
               /\ FGt(frac, Zero)
               /\ result[t] = (IF FLt(plane, frac) THEN plane ELSE frac)
               /\ \A q \in FarPoints :
                     Outside(Vec(q))
                         /\ FLe(ScaledLength(args[t].pos), ScaledLength(Vec(q)))
                         => FLe(frac, FarTerm(Vec(q)))

\* A far point on the ground plane: the scene distance is the plane's, 0.
C6_Witness ==
    \E t \in Threads :
        /\ Done(t) /\ args[t].fn = "mandelbulbScene" /\ Outside(args[t].pos)
        /\ args[t].pos = Vec(<<40, -4, 0>>)
        /\ result[t] = Zero

\* z and dr after n passes of the loop body that did not escape.
RECURSIVE Orbit(_, _, _)
Orbit(pos, power, n) ==
    IF n = 0 THEN [z |-> pos, dr |-> FInt(1)]
    ELSE LET p == Orbit(pos, power, n - 1)
             r == length(p.z)
         IN [z |-> ZUpdate(r, Theta(p.z, r), Phi(p.z), power, pos),
             dr |-> DrUpdate(r, power, p.dr)]

\* C8: each iteration measures r = |z|, then tests escape, then updates dr,
\* then z.  So after i passes z and dr have each been updated exactly i
\* times (dr one more between its update and that of z), and at return r is
\* the magnitude measured at the top of the last iteration entered: of the
\* current z on escape, of the z before the last update when all iterations
\* ran (the final z is never measured, dr includes the final update).
C8_LoopOrder ==
    \A t \in Threads :
        pc[t] \notin {"idle", "start", "off"} /\ args[t].fn \in MbFns =>
            LET f == mb[Slot(t)]
                now == Orbit(f.pos, f.power, f.i)
            IN /\ f.z = now.z
               /\ pc[t] # "rotate" => f.dr = now.dr
               /\ pc[t] = "rotate" => f.dr = DrUpdate(f.r, f.power, now.dr)
               /\ pc[t] \in {"bail", "polar", "rotate"} => f.r = length(f.z)
               /\ pc[t] \in {"polar", "rotate"} => ~Escaped(f.r, f.bail)
               /\ Left(t) /\ f.iterations >= 1 =>
                     IF Escaped(f.r, f.bail)
                     THEN f.i < f.iterations /\ f.r = length(f.z)
                     ELSE /\ f.i = f.iterations
                          /\ f.r = length(Orbit(f.pos, f.power, f.i - 1).z)

\* All eight iterations ran: r is not the magnitude of the final z.
C8_Witness ==
    \E t \in Threads :
        /\ pc[t] = "ret" /\ args[t].fn = "mandelbulb"
        /\ mb[Slot(t)].iterations = 8 /\ mb[Slot(t)].i = 8
        /\ IsNum(mb[Slot(t)].r)
        /\ mb[Slot(t)].r # length(mb[Slot(t)].z)

\* C9 as stated: dr >= 1 in every reachable state, and no update decreases it.
C9_AsStated ==
    /\ [](\A s \in Threads : FGe(mb[s].dr, FInt(1)))
    /\ [][\A s \in Threads : FGe(mb'[s].dr, mb[s].dr)]_vars

\* C9 amended: for power >= 1, dr is never zero, so the estimate never divides
\* by zero; dr >= 1 whenever dr is a number, and dr is NaN only when r is.
\* (An update may decrease dr.)
C9_DrAtLeastOne ==
    \A s \in Threads :
        /\ mb[s].dr # Zero
        /\ IsNaN(mb[s].dr) \/ FGe(mb[s].dr, FInt(1))
        /\ IsNaN(mb[s].dr) => IsNaN(mb[s].r)

\* An update has just decreased dr, which is still at least 1.
C9_Witness ==
    \E t \in Threads :
        /\ pc[t] = "rotate"
        /\ FLt(mb[Slot(t)].dr,
               Orbit(mb[Slot(t)].pos, mb[Slot(t)].power, mb[Slot(t)].i).dr)
        /\ FGe(mb[Slot(t)].dr, FInt(1))
====
